---------------------------- MODULE Spec2Model ----------------------------
(***************************************************************************)
(* State-machine model of the image annotator: the App component (pasted   *)
(* image, drawing mode) and the Canvas component (stroke list, undo/redo   *)
(* stacks, pointer state machine, pan/zoom view transform).                *)
(*                                                                         *)
(* React state is modelled by one variable per useState/useRef cell.  A    *)
(* handler runs atomically against the state of the current render.       *)
(* Stroke objects are JavaScript objects with identity: handleMouseMove    *)
(* assigns to the `points` field of an object that array copies (slice,    *)
(* spread) share, so strokes live in a heap (`strokes`) and the arrays      *)
(* `lines`, and the snapshots in `undoStack` / `redoStack`, hold           *)
(* references (heap indices).                                              *)
(***************************************************************************)
EXTENDS Integers, Sequences, FiniteSets, TLC

(***************************************************************************)
(* Bounds of the model.                                                    *)
(***************************************************************************)
\* events of one run of the main specification that take up memory or start
\* asynchronous work: strokes created, points appended, and paste, copy and
\* wheel events handled
MaxWork == 3
\* wheel events in one run of the zoom specification
MaxWheel == 2
\* strokes committed in the commit-then-undo specification
MaxCommits == 2
\* points that pointer-moves append, in total, in the commit-then-undo
\* specification
MaxExtra == 1
\* intermediate pointer-moves of the arrow drag scenario
MaxDrag == 3

(***************************************************************************)
(* Exact rational arithmetic: JavaScript numbers are modelled by rationals *)
(* <<n, d>> in lowest terms with d > 0.                                    *)
(***************************************************************************)
Abs(i) == IF i < 0 THEN -i ELSE i

RECURSIVE Gcd(_, _)
Gcd(a, b) == IF b = 0 THEN a ELSE Gcd(b, a % b)

Norm(n, d) ==
    LET s == IF d < 0 THEN -1 ELSE 1
        g == Gcd(Abs(n), Abs(d))
    IN  <<(s * n) \div g, (s * d) \div g>>

Rat(i) == <<i, 1>>

RSub(a, b) == Norm(a[1] * b[2] - b[1] * a[2], a[2] * b[2])

\* a * b, cancelling crosswise before multiplying
RMul(a, b) ==
    LET g1 == Gcd(Abs(a[1]), b[2])
        g2 == Gcd(Abs(b[1]), a[2])
    IN  Norm((a[1] \div g1) * (b[1] \div g2), (a[2] \div g2) * (b[2] \div g1))

\* a / b, b # 0
RDiv(a, b) == RMul(a, Norm(b[2], b[1]))

RLess(a, b) == a[1] * b[2] < b[1] * a[2]

RMax(a, b) == IF RLess(a, b) THEN b ELSE a

RMin(a, b) == IF RLess(a, b) THEN a ELSE b

(***************************************************************************)
(* Values.                                                                 *)
(***************************************************************************)
\* JavaScript null / undefined: a record no position, point or image equals
Null == [null |-> TRUE]

\* the two drawing modes / stroke tools
Modes == {"draw", "arrow"}

\* pointer positions Konva reports in the main specification
Pointers == {[x |-> 0, y |-> 0], [x |-> 1, y |-> 2]}

\* stage.getPointerPosition() inside a pointer or wheel handler: Konva records
\* the event's position before it dispatches, so the reading is a position
PointerReadings == Pointers

VARIABLES
    image,        \* App: the image shown, or Null
    mode,         \* App: "draw" or "arrow"
    loading,      \* App: pasted images whose load has not completed
    lines,        \* Canvas: the stroke list (references into strokes)
    undoStack,    \* Canvas: snapshots (arrays of references)
    redoStack,    \* Canvas: snapshots (arrays of references)
    strokes,      \* the stroke objects, by reference
    isDrawing,    \* Canvas: isDrawing.current
    startPoint,   \* Canvas: startPoint.current
    scale,        \* Canvas: view scale
    position,     \* Canvas: view offset
    showFlash,    \* Canvas: the copy flash is shown
    flashTimers,  \* pending setTimeout callbacks that hide the flash
    writes,       \* clipboard exports in flight
    aux,          \* paste, copy and wheel events handled so far
    script        \* position in a scenario (scenario specifications only)

vars == <<image, mode, loading, lines, undoStack, redoStack, strokes, isDrawing,
          startPoint, scale, position, showFlash, flashTimers, writes, aux, script>>


(***************************************************************************)
(* The Canvas component's state, as one record (the values a render sees). *)
(***************************************************************************)
Canvas ==
    [lines |-> lines, undoStack |-> undoStack, redoStack |-> redoStack,
     strokes |-> strokes, isDrawing |-> isDrawing, startPoint |-> startPoint,
     scale |-> scale, position |-> position]

\* the state setters of a handler take effect: the next render sees c
Render(c) ==
    /\ lines' = c.lines
    /\ undoStack' = c.undoStack
    /\ redoStack' = c.redoStack
    /\ strokes' = c.strokes
    /\ isDrawing' = c.isDrawing
    /\ startPoint' = c.startPoint
    /\ scale' = c.scale
    /\ position' = c.position

Last(s) == s[Len(s)]

Front(s) == SubSeq(s, 1, Len(s) - 1)

\* the strokes an array of references denotes
Deref(arr, heap) == [i \in 1..Len(arr) |-> heap[arr[i]]]

(***************************************************************************)
(* History: handleUndo, handleRedo.                                        *)
(***************************************************************************)
\* mutant: the guard is off by one
handleUndoOffByOne(c) ==
    IF Len(c.lines) <= 1 THEN c
    ELSE IF Len(c.undoStack) = 0 THEN c
    ELSE [c EXCEPT !.redoStack = Append(c.redoStack, c.lines),
                   !.lines = Last(c.undoStack),
                   !.undoStack = Front(c.undoStack)]

\* mutant: the restored list, not the current one, is pushed onto redoStack
handleUndoPushesRestored(c) ==
    IF Len(c.lines) = 0 THEN c
    ELSE IF Len(c.undoStack) = 0 THEN c
    ELSE [c EXCEPT !.redoStack = Append(c.redoStack, Last(c.undoStack)),
                   !.lines = Last(c.undoStack),
                   !.undoStack = Front(c.undoStack)]

\* mutant: the popped copy of undoStack is not stored
handleUndoKeepsStack(c) ==
    IF Len(c.lines) = 0 THEN c
    ELSE IF Len(c.undoStack) = 0 THEN c
    ELSE [c EXCEPT !.redoStack = Append(c.redoStack, c.lines),
                   !.lines = Last(c.undoStack)]

handleUndo(c) ==
    IF Len(c.lines) = 0 THEN c
    ELSE IF Len(c.undoStack) = 0 THEN c
    ELSE [c EXCEPT !.redoStack = Append(c.redoStack, c.lines),
                   !.lines = Last(c.undoStack),
                   !.undoStack = Front(c.undoStack)]

\* mutant: the current list is pushed onto undoStack before the guard
handleRedoPushesFirst(c) ==
    IF Len(c.redoStack) = 0
    THEN [c EXCEPT !.undoStack = Append(c.undoStack, c.lines)]
    ELSE [c EXCEPT !.undoStack = Append(c.undoStack, c.lines),
                   !.lines = Last(c.redoStack),
                   !.redoStack = Front(c.redoStack)]

\* mutant: the replaced list is not pushed onto undoStack
handleRedoDropsCurrent(c) ==
    IF Len(c.redoStack) = 0 THEN c
    ELSE [c EXCEPT !.lines = Last(c.redoStack),
                   !.redoStack = Front(c.redoStack)]

handleRedo(c) ==
    IF Len(c.redoStack) = 0 THEN c
    ELSE [c EXCEPT !.undoStack = Append(c.undoStack, c.lines),
                   !.lines = Last(c.redoStack),
                   !.redoStack = Front(c.redoStack)]

(***************************************************************************)
(* Pointer state machine: handleMouseDown, handleMouseMove, handleMouseUp. *)
(***************************************************************************)
\* (pos - position) / scale, per axis
ToImage(pos, c) ==
    [x |-> RDiv(RSub(Rat(pos.x), c.position.x), c.scale),
     y |-> RDiv(RSub(Rat(pos.y), c.position.y), c.scale)]

\* mutant: the new stroke starts with one point
NewStrokeSinglePoint(m, pt) == [tool |-> m, points |-> <<pt.x, pt.y>>]

\* { tool: mode, points: [x, y, x, y] }
NewStroke(m, pt) == [tool |-> m, points |-> <<pt.x, pt.y, pt.x, pt.y>>]

\* mutant: the redo stack is not cleared
handleMouseDownKeepsRedo(c, m, pos) ==
    LET d == [c EXCEPT !.isDrawing = TRUE]
    IN  IF pos = Null THEN d
        ELSE LET pt == ToImage(pos, c)
                 ref == Len(c.strokes) + 1
             IN  [d EXCEPT !.startPoint = pt,
                           !.undoStack = Append(c.undoStack, c.lines),
                           !.strokes = Append(c.strokes, NewStroke(m, pt)),
                           !.lines = Append(c.lines, ref)]

handleMouseDown(c, m, pos) ==
    LET d == [c EXCEPT !.isDrawing = TRUE]
    IN  IF pos = Null THEN d
        ELSE LET pt == ToImage(pos, c)
                 ref == Len(c.strokes) + 1
             IN  [d EXCEPT !.startPoint = pt,
                           !.undoStack = Append(c.undoStack, c.lines),
                           !.redoStack = <<>>,
                           !.strokes = Append(c.strokes, NewStroke(m, pt)),
                           !.lines = Append(c.lines, ref)]

\* mutant: an arrow restarts from its previous end point
MovedPointsFromLastEnd(m, last, pt) ==
    IF m = "arrow"
    THEN <<last.points[3], last.points[4], pt.x, pt.y>>
    ELSE last.points \o <<pt.x, pt.y>>

\* the points handleMouseMove assigns to the last stroke
MovedPoints(m, last, pt) ==
    IF m = "arrow"
    THEN <<last.points[1], last.points[2], pt.x, pt.y>>
    ELSE last.points \o <<pt.x, pt.y>>

handleMouseMove(c, m, pos) ==
    IF ~c.isDrawing THEN c
    ELSE IF pos = Null THEN c
    ELSE IF Len(c.lines) = 0 THEN c
    ELSE LET ref == Last(c.lines)
             pt == ToImage(pos, c)
         IN  [c EXCEPT !.strokes[ref].points = MovedPoints(m, c.strokes[ref], pt)]

handleMouseUp(c) == [c EXCEPT !.isDrawing = FALSE, !.startPoint = Null]

(***************************************************************************)
(* View transform: handleWheel.                                            *)
(***************************************************************************)
ScaleBy == <<11, 10>>

MinScale == <<1, 10>>

MaxScale == <<10, 1>>

\* mutant: only the lower limit is applied
LimitScaleLowerOnly(s) == RMax(s, MinScale)

\* Math.min(Math.max(newScale, 0.1), 10)
LimitScale(s) == RMin(RMax(s, MinScale), MaxScale)

\* mutant: the new position is computed with the unclamped scale
handleWheelUnclampedPosition(c, pointer, zoomIn) ==
    IF pointer = Null THEN c
    ELSE LET oldScale == c.scale
             mousePointTo == ToImage(pointer, c)
             newScale == IF zoomIn THEN RMul(oldScale, ScaleBy)
                                   ELSE RDiv(oldScale, ScaleBy)
             limitedScale == LimitScale(newScale)
         IN  [c EXCEPT !.scale = limitedScale,
                       !.position =
                           [x |-> RSub(Rat(pointer.x), RMul(mousePointTo.x, newScale)),
                            y |-> RSub(Rat(pointer.y), RMul(mousePointTo.y, newScale))]]

handleWheel(c, pointer, zoomIn) ==
    IF pointer = Null THEN c
    ELSE LET oldScale == c.scale
             mousePointTo == ToImage(pointer, c)
             newScale == IF zoomIn THEN RMul(oldScale, ScaleBy)
                                   ELSE RDiv(oldScale, ScaleBy)
             limitedScale == LimitScale(newScale)
         IN  [c EXCEPT !.scale = limitedScale,
                       !.position =
                           [x |-> RSub(Rat(pointer.x), RMul(mousePointTo.x, limitedScale)),
                            y |-> RSub(Rat(pointer.y), RMul(mousePointTo.y, limitedScale))]]

(***************************************************************************)
(* Keyboard: handleKeyDown.  A key event carries the modifier state and    *)
(* the `key` value the browser reports.                                    *)
(***************************************************************************)
KeyEvents == [mod : BOOLEAN, shiftKey : BOOLEAN, key : {"c", "z", "Z"}]

\* (e.metaKey || e.ctrlKey) && e.key === "c"
IsCopyKey(e) == e.mod /\ e.key = "c"

\* (e.metaKey || e.ctrlKey) && e.key === "z"
IsUndoRedoKey(e) == e.mod /\ e.key = "z"

\* the second branch of handleKeyDown
KeyHistory(c, e) ==
    IF IsUndoRedoKey(e)
    THEN IF e.shiftKey THEN handleRedo(c) ELSE handleUndo(c)
    ELSE c

(***************************************************************************)
(* Initial state: App and Canvas as constructed (useState / useRef).       *)
(***************************************************************************)
InitApp ==
    /\ image = Null
    /\ mode = "draw"
    /\ loading = {}

InitCanvas ==
    /\ lines = <<>>
    /\ undoStack = <<>>
    /\ redoStack = <<>>
    /\ strokes = <<>>
    /\ isDrawing = FALSE
    /\ startPoint = Null
    /\ scale = Rat(1)
    /\ position = [x |-> Rat(0), y |-> Rat(0)]
    /\ showFlash = FALSE
    /\ flashTimers = 0
    /\ writes = 0

Init ==
    /\ InitApp
    /\ InitCanvas
    /\ aux = 0
    /\ script = 0

appVars == <<image, mode, loading>>

canvasVars == <<lines, undoStack, redoStack, strokes, isDrawing, startPoint,
                scale, position>>

copyVars == <<showFlash, flashTimers, writes>>

(***************************************************************************)
(* Events: each handler, run against the current render's state.           *)
(***************************************************************************)
\* the pasted clipboard holds no image item: handlePaste returns
PasteNothing == UNCHANGED <<appVars, canvasVars, copyVars, aux>>

\* handlePaste up to its await: a new Image starts loading
PasteImage ==
    /\ loading' = loading \cup {[id |-> aux + 1]}
    /\ aux' = aux + 1
    /\ UNCHANGED <<image, mode, canvasVars, copyVars>>

\* img.onload resolves the awaited promise: setImage(img)
ImageLoaded(img) ==
    /\ img \in loading
    /\ image' = img
    /\ loading' = loading \ {img}
    /\ UNCHANGED <<mode, canvasVars, copyVars, aux>>

\* a toolbar button's onClick
SetMode(m) ==
    /\ mode' = m
    /\ UNCHANGED <<image, loading, canvasVars, copyVars, aux>>

\* the Stage is rendered, and so receives pointer events, only with an image
StageMounted == image # Null

OnMouseDown(pos) ==
    /\ StageMounted
    /\ Render(handleMouseDown(Canvas, mode, pos))
    /\ UNCHANGED <<appVars, copyVars, aux>>

OnMouseMove(pos) ==
    /\ StageMounted
    /\ Render(handleMouseMove(Canvas, mode, pos))
    /\ UNCHANGED <<appVars, copyVars, aux>>

OnMouseUp ==
    /\ StageMounted
    /\ Render(handleMouseUp(Canvas))
    /\ UNCHANGED <<appVars, copyVars, aux>>

OnWheel(pointer, zoomIn) ==
    /\ StageMounted
    /\ Render(handleWheel(Canvas, pointer, zoomIn))
    /\ aux' = aux + 1
    /\ UNCHANGED <<appVars, copyVars>>

\* handleKeyDown: the copy branch up to its first await, then the undo/redo
\* branch
OnKeyDown(e) ==
    /\ IF IsCopyKey(e) /\ StageMounted
       THEN /\ showFlash' = TRUE
            /\ flashTimers' = flashTimers + 1
            /\ writes' = writes + 1
            /\ aux' = aux + 1
       ELSE UNCHANGED <<copyVars, aux>>
    /\ Render(KeyHistory(Canvas, e))
    /\ UNCHANGED appVars

\* setTimeout(() => setShowFlash(false), 150) fires
FlashTimeout ==
    /\ flashTimers > 0
    /\ flashTimers' = flashTimers - 1
    /\ showFlash' = FALSE
    /\ UNCHANGED <<appVars, canvasVars, writes, aux>>

\* the awaited fetch / blob / clipboard.write chain resolves or rejects
ExportSettles ==
    /\ writes > 0
    /\ writes' = writes - 1
    /\ UNCHANGED <<appVars, canvasVars, showFlash, flashTimers, aux>>

(***************************************************************************)
(* Main specification: any interleaving of the events, within MaxWork.     *)
(***************************************************************************)
RECURSIVE ExtraPoints(_)
\* the points of the strokes of heap beyond the two each is created with
ExtraPoints(heap) ==
    IF heap = <<>> THEN 0
    ELSE (Len(Last(heap).points) \div 2 - 2) + ExtraPoints(Front(heap))

\* strokes created, points appended, paste / copy / wheel events handled
Work == Len(strokes) + ExtraPoints(strokes) + aux

\* the run may take one more such event
RoomToWork == Work < MaxWork

Paste ==
    /\ PasteNothing \/ (RoomToWork /\ PasteImage)
    /\ UNCHANGED script

Load(img) == ImageLoaded(img) /\ UNCHANGED script

ChooseMode(m) == SetMode(m) /\ UNCHANGED script

MouseDown(pos) == RoomToWork /\ OnMouseDown(pos) /\ UNCHANGED script

MouseMove(pos) ==
    /\ mode = "arrow" \/ RoomToWork
    /\ OnMouseMove(pos)
    /\ UNCHANGED script

MouseUp == OnMouseUp /\ UNCHANGED script

Wheel(pointer, zoomIn) ==
    RoomToWork /\ OnWheel(pointer, zoomIn) /\ UNCHANGED script

KeyDown(e) ==
    /\ IsCopyKey(e) /\ StageMounted => RoomToWork
    /\ OnKeyDown(e)
    /\ UNCHANGED script

Flash == FlashTimeout /\ UNCHANGED script

Settle == ExportSettles /\ UNCHANGED script

Next ==
    \/ Paste
    \/ \E img \in loading : Load(img)
    \/ \E m \in Modes : ChooseMode(m)
    \/ \E pos \in PointerReadings : MouseDown(pos)
    \/ \E pos \in PointerReadings : MouseMove(pos)
    \/ MouseUp
    \/ \E pointer \in PointerReadings, zoomIn \in BOOLEAN : Wheel(pointer, zoomIn)
    \/ \E e \in KeyEvents : KeyDown(e)
    \/ Flash
    \/ Settle

Spec == Init /\ [][Next]_vars

(***************************************************************************)
(* Properties of the main specification.                                   *)
(***************************************************************************)
\* the stroke list a Canvas state shows: its strokes, by value
Shown(c) == Deref(c.lines, c.strokes)

\* C2 (as stated): in every reachable state, handleUndo immediately followed by
\* handleRedo leaves the stroke list as it was.
C2_UndoRedoAnyState == Shown(handleRedo(handleUndo(Canvas))) = Shown(Canvas)

\* C2 (amended): in every reachable state whose undo stack is non-empty (so
\* that the undo takes effect), handleUndo immediately followed by handleRedo
\* leaves the stroke list as it was.
C2_UndoRedoRoundTrip ==
    Len(undoStack) > 0 => Shown(handleRedo(handleUndo(Canvas))) = Shown(Canvas)

\* an undo has acted, and a further undo then redo differs from a lone undo
C2_Witness ==
    /\ Len(undoStack) > 0
    /\ Len(redoStack) > 0
    /\ handleUndo(Canvas).lines # lines

\* C3: every stroke commit pushes the list as it was before the commit onto
\* the undo stack and leaves the redo stack empty, so that a redo right after
\* it changes nothing.
C3_CommitSnapshots ==
    [][\A pos \in PointerReadings :
           OnMouseDown(pos) =>
               /\ undoStack' = Append(undoStack, lines)
               /\ Deref(Last(undoStack'), strokes') = Deref(lines, strokes)
               /\ redoStack' = <<>>
               /\ handleRedo(Canvas)' = Canvas']_vars

\* a commit has followed an undo: a stroke was dropped from the history
C3_Witness ==
    /\ redoStack = <<>>
    /\ Len(undoStack) > 0
    /\ Len(lines) > 0
    /\ Last(lines) = Len(strokes)
    /\ \E ref \in 1..Len(strokes) :
           \A i \in 1..Len(lines) : lines[i] # ref

\* C4: in every reachable state handleUndo takes effect exactly when the undo
\* stack is non-empty: it then makes the top of undoStack the new lines, pops
\* it and pushes the old lines onto redoStack; with an empty undo stack it
\* changes nothing.
C4_UndoEffect ==
    LET u == handleUndo(Canvas)
    IN  IF Len(undoStack) > 0
        THEN /\ u.lines = Last(undoStack)
             /\ u.undoStack = Front(undoStack)
             /\ u.redoStack = Append(redoStack, lines)
        ELSE u = Canvas

\* an undo has acted and another one would take effect
C4_Witness == Len(redoStack) > 0 /\ Len(undoStack) > 0

\* the strokes the stroke list or a history snapshot refers to
Referenced ==
    {ref \in 1..Len(strokes) :
        \/ \E i \in 1..Len(lines) : lines[i] = ref
        \/ \E k \in 1..Len(undoStack) :
               \E i \in 1..Len(undoStack[k]) : undoStack[k][i] = ref
        \/ \E k \in 1..Len(redoStack) :
               \E i \in 1..Len(redoStack[k]) : redoStack[k][i] = ref}

\* C5: in every reachable state every arrow stroke, in lines and in every
\* undo / redo snapshot, has exactly 2 points (4 numbers).
C5_ArrowsHaveTwoPoints ==
    \A ref \in Referenced :
        strokes[ref].tool = "arrow" => Len(strokes[ref].points) = 4

\* the stroke the pointer-down of the current gesture created, if it is still
\* the last of lines
GestureStroke ==
    IF isDrawing /\ Len(lines) > 0 /\ Last(lines) = Len(strokes)
    THEN {Last(lines)}
    ELSE {}

\* C6: while the pointer machine is Drawing, a pointer-move updates the
\* gesture's stroke according to the stroke's own tool, whatever the mode is
\* by then.
C6_ToolFixedAtCreation ==
    \A ref \in GestureStroke : \A pos \in PointerReadings :
        handleMouseMove(Canvas, mode, pos).strokes[ref].points
            = MovedPoints(strokes[ref].tool, strokes[ref], ToImage(pos, Canvas))

\* C7: during one gesture, no pointer-move decreases the number of points of
\* the freehand stroke the gesture's pointer-down created.
C7_FreehandNeverShrinks ==
    [][\A ref \in GestureStroke : \A pos \in PointerReadings :
           OnMouseMove(pos) /\ strokes[ref].tool = "draw" =>
               Len(strokes'[ref].points) >= Len(strokes[ref].points)]_vars

(***************************************************************************)
(* Commit-then-undo specification: from a freshly mounted canvas, N stroke *)
(* commits (pointer-down, pointer-moves, pointer-up; the mode may change   *)
(* between events), then undos.  script counts both.                       *)
(***************************************************************************)
UndoKey == [mod |-> TRUE, shiftKey |-> FALSE, key |-> "z"]

RedoKey == [mod |-> TRUE, shiftKey |-> TRUE, key |-> "z"]

InitCommitUndo ==
    /\ image = [id |-> 1]
    /\ mode = "draw"
    /\ loading = {}
    /\ InitCanvas
    /\ aux = 1
    /\ script = [phase |-> "commit", commits |-> 0, undos |-> 0]

CommitDown(pos) ==
    /\ script.phase = "commit"
    /\ ~isDrawing
    /\ script.commits < MaxCommits
    /\ OnMouseDown(pos)
    /\ script' = [script EXCEPT !.commits = @ + 1]

CommitMove(pos) ==
    /\ script.phase = "commit"
    /\ isDrawing
    /\ mode = "arrow" \/ ExtraPoints(strokes) < MaxExtra
    /\ OnMouseMove(pos)
    /\ UNCHANGED script

CommitUp ==
    /\ script.phase = "commit"
    /\ isDrawing
    /\ OnMouseUp
    /\ UNCHANGED script

CommitMode(m) ==
    /\ script.phase = "commit"
    /\ SetMode(m)
    /\ UNCHANGED script

ThenUndo ==
    /\ ~isDrawing
    /\ script.undos < script.commits
    /\ OnKeyDown(UndoKey)
    /\ script' = [script EXCEPT !.phase = "undo", !.undos = @ + 1]

NextCommitUndo ==
    \/ \E pos \in PointerReadings : CommitDown(pos)
    \/ \E pos \in PointerReadings : CommitMove(pos)
    \/ CommitUp
    \/ \E m \in Modes : CommitMode(m)
    \/ ThenUndo

SpecCommitUndo == InitCommitUndo /\ [][NextCommitUndo]_vars

\* C1: from a freshly mounted canvas, after N stroke commits followed by N
\* undos (N >= 0) the stroke list is empty again.
C1_CommitsThenUndos ==
    /\ script.undos = script.commits
    /\ script.phase = "undo" \/ script.commits = 0
    => lines = <<>>

\* MaxCommits strokes were committed and as many undos have acted
C1_Witness ==
    /\ script.phase = "undo"
    /\ script.commits = MaxCommits
    /\ script.undos = script.commits
    /\ Len(redoStack) = MaxCommits

(***************************************************************************)
(* Scenario specification: the two drawing scenarios, with scale 1 and     *)
(* offset (0,0).  "freehand": paste, pointer-down at (10,10), 5            *)
(* intermediate pointer-moves, a pointer-move to (20,20), pointer-up,      *)
(* undo, redo.  "arrow": paste, select arrow mode, pointer-down at (0,0),  *)
(* up to MaxDrag intermediate pointer-moves, a pointer-move to (50,50),    *)
(* pointer-up, undo, redo.                                                 *)
(***************************************************************************)
Scenarios == {"freehand", "arrow"}

DragPointers == {[x |-> 12, y |-> 11], [x |-> 15, y |-> 18], [x |-> 30, y |-> 5]}

DragStart(name) ==
    IF name = "freehand" THEN [x |-> 10, y |-> 10] ELSE [x |-> 0, y |-> 0]

DragEnd(name) ==
    IF name = "freehand" THEN [x |-> 20, y |-> 20] ELSE [x |-> 50, y |-> 50]

InitScenario ==
    /\ InitApp
    /\ InitCanvas
    /\ aux = 0
    /\ \E name \in Scenarios :
           script = [name |-> name, step |-> "paste", moves |-> 0]

Step(from, to) == script.step = from /\ script' = [script EXCEPT !.step = to]

ScenarioPaste == Step("paste", "load") /\ PasteImage

ScenarioLoad ==
    /\ Step("load", IF script.name = "arrow" THEN "mode" ELSE "down")
    /\ \E img \in loading : ImageLoaded(img)

ScenarioSelectArrow == Step("mode", "down") /\ SetMode("arrow")

ScenarioDown == Step("down", "drag") /\ OnMouseDown(DragStart(script.name))

ScenarioDrag(pos) ==
    /\ script.step = "drag"
    /\ script.moves < (IF script.name = "freehand" THEN 5 ELSE MaxDrag)
    /\ script' = [script EXCEPT !.moves = @ + 1]
    /\ OnMouseMove(pos)

ScenarioDragEnd ==
    /\ Step("drag", "up")
    /\ script.name = "freehand" => script.moves = 5
    /\ OnMouseMove(DragEnd(script.name))

ScenarioUp == Step("up", "undo") /\ OnMouseUp

ScenarioUndo == Step("undo", "redo") /\ OnKeyDown(UndoKey)

ScenarioRedo == Step("redo", "end") /\ OnKeyDown(RedoKey)

NextScenario ==
    \/ ScenarioPaste
    \/ ScenarioLoad
    \/ ScenarioSelectArrow
    \/ ScenarioDown
    \/ \E pos \in DragPointers : ScenarioDrag(pos)
    \/ ScenarioDragEnd
    \/ ScenarioUp
    \/ ScenarioUndo
    \/ ScenarioRedo

SpecScenario == InitScenario /\ [][NextScenario]_vars

\* the number of points (coordinate pairs) of the only stroke of lines
OnlyStrokePoints == Len(strokes[lines[1]].points) \div 2

\* C8 (as stated): in the freehand scenario the undo leaves lines empty, and
\* the redo leaves exactly 1 stroke, of exactly 6 points.
C8_RedoSixPoints ==
    script.name = "freehand" =>
        /\ script.step = "redo" => lines = <<>>
        /\ script.step = "end" => Len(lines) = 1 /\ OnlyStrokePoints = 6

\* C8 (amended): in the freehand scenario the undo leaves lines empty, and the
\* redo leaves exactly 1 stroke, of exactly 8 points: the pointer-down
\* position twice, then one point per pointer-move (5 intermediate, 1 final).
C8_RedoEightPoints ==
    script.name = "freehand" =>
        /\ script.step = "redo" => lines = <<>>
        /\ script.step = "end" =>
               /\ Len(lines) = 1
               /\ OnlyStrokePoints = 8
               /\ SubSeq(strokes[lines[1]].points, 1, 4)
                      = <<Rat(10), Rat(10), Rat(10), Rat(10)>>
               /\ SubSeq(strokes[lines[1]].points, 15, 16) = <<Rat(20), Rat(20)>>

\* the freehand scenario has run to its end
C8_Witness ==
    /\ script.name = "freehand"
    /\ script.step = "end"
    /\ script.moves = 5
    /\ Len(lines) = 1

\* C9: in the arrow scenario, once the pointer has moved to (50,50) the last
\* stroke's points are exactly [0,0,50,50], whatever the intermediate
\* positions were.
C9_ArrowEndpoints ==
    script.name = "arrow" /\ script.step \in {"up", "undo", "end"} =>
        /\ Len(lines) > 0
        /\ strokes[Last(lines)]
               = [tool |-> "arrow", points |-> <<Rat(0), Rat(0), Rat(50), Rat(50)>>]

\* the arrow drag has ended after MaxDrag intermediate moves
C9_Witness ==
    /\ script.name = "arrow"
    /\ script.step = "up"
    /\ script.moves = MaxDrag
    /\ Len(lines) = 1

(***************************************************************************)
(* Zoom specification: wheel events on a canvas whose scale is 1 or at an  *)
(* end of the zoom range.  Scale 10 (resp. 0.1) with offset (0,0) is       *)
(* reached from the mounted canvas by 25 wheel events zooming in (resp.    *)
(* out) with the pointer at (0,0): 1.1^24 < 10 < 1.1^25.                   *)
(***************************************************************************)
ZoomScales == {MinScale, Rat(1), MaxScale}

ZoomPointers ==
    {[x |-> 0, y |-> 0], [x |-> 1, y |-> 2], [x |-> 3, y |-> 1], [x |-> 2, y |-> 3]}

InitZoom ==
    /\ image = [id |-> 1]
    /\ mode = "draw"
    /\ loading = {}
    /\ lines = <<>>
    /\ undoStack = <<>>
    /\ redoStack = <<>>
    /\ strokes = <<>>
    /\ isDrawing = FALSE
    /\ startPoint = Null
    /\ scale \in ZoomScales
    /\ position = [x |-> Rat(0), y |-> Rat(0)]
    /\ showFlash = FALSE
    /\ flashTimers = 0
    /\ writes = 0
    /\ aux = 1
    /\ script = 0

ZoomWheel(pointer, zoomIn) ==
    /\ script < MaxWheel
    /\ OnWheel(pointer, zoomIn)
    /\ script' = script + 1

NextZoom == \E pointer \in ZoomPointers, zoomIn \in BOOLEAN : ZoomWheel(pointer, zoomIn)

SpecZoom == InitZoom /\ [][NextZoom]_vars

\* the scale a wheel event computes before clamping
UnclampedScale(zoomIn) ==
    IF zoomIn THEN RMul(scale, ScaleBy) ELSE RDiv(scale, ScaleBy)

\* C10: for every wheel event, in every reachable view state, the image-space
\* point under the pointer is the same before and after the event, also when
\* the clamp to [0.1, 10] is active.
C10_ZoomToCursor ==
    \A pointer \in ZoomPointers, zoomIn \in BOOLEAN :
        ToImage(pointer, handleWheel(Canvas, pointer, zoomIn))
            = ToImage(pointer, Canvas)

\* wheel events have moved the view, and the next zoom-in is clamped
C10_Witness ==
    /\ script > 0
    /\ position.x # Rat(0)
    /\ scale = MaxScale
    /\ LimitScale(UnclampedScale(TRUE)) # UnclampedScale(TRUE)

\* s clamped to [0.1, 10], case by case
Clamped(s) ==
    IF RLess(s, MinScale) THEN MinScale
    ELSE IF RLess(MaxScale, s) THEN MaxScale
    ELSE s

\* C11: in every reachable state 0.1 <= scale <= 10, and each wheel event
\* sets the scale to the old scale times or divided by 1.1, clamped to that
\* range.
C11_ScaleInRange ==
    /\ ~RLess(scale, MinScale)
    /\ ~RLess(MaxScale, scale)
    /\ \A pointer \in ZoomPointers, zoomIn \in BOOLEAN :
           handleWheel(Canvas, pointer, zoomIn).scale
               = Clamped(IF zoomIn THEN RMul(scale, <<11, 10>>)
                                   ELSE RDiv(scale, <<11, 10>>))

\* a first wheel event zoomed in at scale 10 and was clamped back to 10
C11_Witness == script = 1 /\ scale = MaxScale


(***************************************************************************)
(* A paste over an existing image.                                         *)
(***************************************************************************)
\* C12: whenever a loaded paste replaces the current image with a new one,
\* right after the new image is set lines is empty, and so are the undo and
\* redo stacks through which earlier strokes could come back.
C12_NewImageDiscardsStrokes ==
    [][\A img \in loading :
           (image # Null /\ Load(img))
               => /\ image' = img
                  /\ lines' = <<>>
                  /\ undoStack' = <<>>
                  /\ redoStack' = <<>>]_vars

(***************************************************************************)
(* Failures: a paste without an image, a copy that is rejected, undo or    *)
(* redo on an empty stack.                                                 *)
(***************************************************************************)
\* the stroke list and both history stacks of a Canvas state, by value
History(c) ==
    [lines |-> Shown(c),
     undoStack |-> [k \in 1..Len(c.undoStack) |-> Deref(c.undoStack[k], c.strokes)],
     redoStack |-> [k \in 1..Len(c.redoStack) |-> Deref(c.redoStack[k], c.strokes)]]

\* handleKeyDown takes its copy branch
CopyPressed == \E e \in KeyEvents : IsCopyKey(e) /\ OnKeyDown(e)

\* handleKeyDown calls handleUndo or handleRedo, whose stack is empty
HistoryKeyOnEmptyStack ==
    \E e \in KeyEvents :
        /\ IsUndoRedoKey(e)
        /\ IF e.shiftKey THEN redoStack = <<>> ELSE undoStack = <<>>
        /\ OnKeyDown(e)

\* C13: a paste without an image item, a copy (its key-down, and the later
\* rejection of its clipboard write) and an undo or redo on an empty stack
\* each leave lines, undoStack and redoStack exactly as they were.
C13_FailuresKeepHistory ==
    [][(PasteNothing \/ CopyPressed \/ ExportSettles \/ HistoryKeyOnEmptyStack)
           => /\ History(Canvas)' = History(Canvas)
              /\ <<lines, undoStack, redoStack>>' = <<lines, undoStack, redoStack>>]_vars

\* a copy made with a stroke on the canvas has settled, and a redo now finds
\* its stack empty
C13_Witness ==
    /\ lines # <<>>
    /\ redoStack = <<>>
    /\ showFlash
    /\ writes = 0

(***************************************************************************)
(* Keyboard shortcuts.  KeyboardEvent.key is the key's value with the      *)
(* Shift state applied: the Z key pressed with Shift held is reported as   *)
(* "Z" (as "z" where the platform modifier suppresses the shifted value or *)
(* Caps Lock inverts it).                                                  *)
(***************************************************************************)
\* the key events a browser may dispatch for modifier + Z, Shift as given
ZChord(shift) ==
    {e \in KeyEvents :
        /\ e.mod
        /\ e.shiftKey = shift
        /\ e.key \in (IF shift THEN {"Z", "z"} ELSE {"z"})}

\* the key events a browser may dispatch for modifier + C
CChord == {e \in KeyEvents : e.mod /\ ~e.shiftKey /\ e.key = "c"}

\* C14: while an image is loaded, modifier+Z performs undo, modifier+Shift+Z
\* (with the key value the browser reports for the chord) performs redo and
\* modifier+C takes the export branch.
C14_Shortcuts ==
    image # Null =>
        /\ \A e \in ZChord(FALSE) : KeyHistory(Canvas, e) = handleUndo(Canvas)
        /\ \A e \in ZChord(TRUE) : KeyHistory(Canvas, e) = handleRedo(Canvas)
        /\ \A e \in CChord : IsCopyKey(e) /\ StageMounted

(***************************************************************************)
(* Asynchronous work: image loads awaited by handlePaste, exports awaited  *)
(* by handleKeyDown.                                                       *)
(***************************************************************************)
\* the asynchronous operations started and not yet completed
InFlight == Cardinality(loading) + writes

\* C15: at most one asynchronous operation (an image load started by a paste
\* or a clipboard write started by a copy) is in flight at any time.
C15_OneAsyncInFlight == InFlight <= 1

(***************************************************************************)
(* Leaving specification: one pointer over a mounted canvas, which may     *)
(* leave the Stage and come back, and whose button may be released         *)
(* outside.  The Stage has handlers for mouse-down, -move, -up and wheel   *)
(* only, so leaving, returning and a release outside run no handler.       *)
(* script holds the pointer: over the Stage or not, button pressed or not, *)
(* and whether it has left the Stage since the last pointer-down.          *)
(***************************************************************************)
InitLeave ==
    /\ image = [id |-> 1]
    /\ mode \in Modes
    /\ loading = {}
    /\ InitCanvas
    /\ aux = 1
    /\ script = [over |-> TRUE, pressed |-> FALSE, left |-> FALSE]

LeaveDown(pos) ==
    /\ script.over
    /\ ~script.pressed
    /\ RoomToWork
    /\ OnMouseDown(pos)
    /\ script' = [script EXCEPT !.pressed = TRUE, !.left = FALSE]

LeaveMove(pos) ==
    /\ script.over
    /\ mode = "arrow" \/ RoomToWork
    /\ OnMouseMove(pos)
    /\ UNCHANGED script

LeaveUp ==
    /\ script.over
    /\ script.pressed
    /\ OnMouseUp
    /\ script' = [script EXCEPT !.pressed = FALSE]

\* the pointer crosses the Stage's edge outwards: no onMouseLeave handler
PointerLeaves ==
    /\ script.over
    /\ script' = [script EXCEPT !.over = FALSE, !.left = TRUE]
    /\ UNCHANGED <<appVars, canvasVars, copyVars, aux>>

\* the button is released outside the Stage: its onMouseUp does not fire
ReleasedOutside ==
    /\ ~script.over
    /\ script.pressed
    /\ script' = [script EXCEPT !.pressed = FALSE]
    /\ UNCHANGED <<appVars, canvasVars, copyVars, aux>>

\* the pointer crosses the Stage's edge inwards: no onMouseEnter handler
PointerReturns ==
    /\ ~script.over
    /\ script' = [script EXCEPT !.over = TRUE]
    /\ UNCHANGED <<appVars, canvasVars, copyVars, aux>>

NextLeave ==
    \/ \E pos \in PointerReadings : LeaveDown(pos)
    \/ \E pos \in PointerReadings : LeaveMove(pos)
    \/ LeaveUp
    \/ PointerLeaves
    \/ ReleasedOutside
    \/ PointerReturns

SpecLeave == InitLeave /\ [][NextLeave]_vars

\* C16: once the pointer has left the Stage (with the button held, or released
\* outside), pointer-moves over the canvas before a new pointer-down change no
\* stroke of lines.
C16_StrokeEndsOnLeave ==
    [][\A pos \in PointerReadings :
           (script.left /\ LeaveMove(pos)) => Shown(Canvas)' = Shown(Canvas)]_vars

(***************************************************************************)
(* Frame of a pointer-move: the stroke objects it leaves alone.            *)
(***************************************************************************)
\* the snapshots stored in stack denote, with the strokes of heapAfter, what
\* they denote with those of heapBefore
SameSnapshots(stack, heapBefore, heapAfter) ==
    \A k \in 1..Len(stack) :
        Deref(stack[k], heapAfter) = Deref(stack[k], heapBefore)

\* C17: no step changes the contents of a stroke list already stored in
\* undoStack or redoStack, and a pointer-move changes the points of no stroke
\* but the one created by the most recent pointer-down.
C17_SnapshotsImmutable ==
    [][/\ SameSnapshots(undoStack, strokes, strokes')
       /\ SameSnapshots(redoStack, strokes, strokes')
       /\ \A pos \in PointerReadings :
              OnMouseMove(pos) =>
                  \A ref \in 1..(Len(strokes) - 1) :
                      strokes'[ref] = strokes[ref]]_vars

(***************************************************************************)
(* Shape of the history.                                                   *)
(***************************************************************************)
\* C18: in every reachable state lines has as many strokes as undoStack has
\* snapshots, the i-th snapshot of undoStack (0-based, from the bottom) has i
\* strokes, every snapshot of redoStack has more strokes than lines, and
\* lines is empty exactly when undoStack is.
C18_HistoryLengths ==
    /\ Len(lines) = Len(undoStack)
    /\ \A k \in 1..Len(undoStack) : Len(undoStack[k]) = k - 1
    /\ \A k \in 1..Len(redoStack) : Len(redoStack[k]) > Len(lines)
    /\ (lines = <<>>) <=> (undoStack = <<>>)

\* two strokes were committed and the second was undone: each stack holds a
\* snapshot
C18_Witness ==
    /\ Len(strokes) = 2
    /\ Len(undoStack) = 1
    /\ Len(redoStack) = 1
    /\ lines # undoStack[1]

(***************************************************************************)
(* Order of pastes.  A pasted image is named by the ordinal of its paste   *)
(* event, so a larger id is a later paste.                                 *)
(***************************************************************************)
\* C19: last paste wins: when the load of a pasted image completes while the
\* image of another paste is displayed, the image displayed afterwards is the
\* later pasted of the two, so that once the loads of pastes A then B have
\* both completed, in either order, the image is B.
C19_LastPasteWins ==
    [][\A img \in loading :
           (image # Null /\ Load(img))
               => image'.id = (IF img.id > image.id THEN img.id ELSE image.id)]_vars
===========================================================================
